---- MODULE Spec2Model ----
(***************************************************************************)
(* The three squared-Euclidean-distance-matrix functions of                *)
(* topics/python-hpc/tutorials/euclidean-distance-matrix-numba.jit.ipynb:  *)
(* euclidean_numpy (cell 2), euclidean_numba1 and euclidean_numba2         *)
(* (cell 3), and the comparison of cell 4.                                 *)
(*                                                                         *)
(* Arrays keep Python's 0-based indices.  A 2-D array is a record          *)
(* [shape |-> <<rows, cols>>, data |-> [0..rows-1 -> [0..cols-1 -> value]]]*)
(* Array elements are float64 in the notebook; the inputs drawn here are   *)
(* small integers, which float64 represents and adds exactly, so finite    *)
(* values are Integers.  The one non-finite value that matters, NaN, is a  *)
(* reserved number outside the range of every finite result.               *)
(***************************************************************************)
EXTENDS Integers, Sequences, FiniteSets, TLC

\* ---------------------------------------------------------------- bounds
MaxRows == 2
MaxFeat == 2
MaxCells == 4

\* Element values of the input arrays (the notebook draws 10. * random()).
Vals == {0, 3, 4}

\* float64 NaN.
NaN == -1000000

\* What a word of memory past the end of an array buffer may hold.
Garbage == {5, NaN}

VARIABLES
    pc,           \* position of the running call
    fn,           \* the function called
    x, y,         \* its arguments
    oob,          \* content of the memory past the end of y's buffer
    x2, y2, xy,   \* euclidean_numpy's temporaries
    num_samples, num_feat,
    dist_matrix,
    i, j,         \* loop indices
    kdone,        \* iterations of prange(num_feat) already executed
    jdone,        \* iterations of prange(num_samples) already executed
    r,            \* euclidean_numba1's accumulator
    ret,          \* the returned array
    err,          \* the exception raised, "" when none
    writes,       \* history: number of assignments to each cell of dist_matrix
    prev          \* the previous completed call of the session (cell 4)

vars == <<pc, fn, x, y, oob, x2, y2, xy, num_samples, num_feat, dist_matrix,
          i, j, kdone, jdone, r, ret, err, writes, prev>>

\* ---------------------------------------------------------------- arrays
Rows(m) == m.shape[1]
Cols(m) == m.shape[2]

Array(R, C) ==
    {[shape |-> <<R, C>>, data |-> d] : d \in [0..(R-1) -> [0..(C-1) -> Vals]]}

Inputs ==
    UNION {Array(R, C) : <<R, C>> \in
              {s \in (0..MaxRows) \X (1..MaxFeat) : s[1] * s[2] <= MaxCells}}

NoArray == [shape |-> <<-1, -1>>, data |-> <<>>]
NoCall == [fn |-> "", x |-> NoArray, y |-> NoArray, ret |-> NoArray, err |-> ""]

\* np.zeros((R, C))
zeros(R, C) == [shape |-> <<R, C>>, data |-> [a \in 0..(R-1) |-> [c \in 0..(C-1) |-> 0]]]

Cells(m) == (0..(Rows(m)-1)) \X (0..(Cols(m)-1))

\* ---------------------------------------------------------------- float64
FAdd(a, b) == IF a = NaN \/ b = NaN THEN NaN ELSE a + b
FSub(a, b) == IF a = NaN \/ b = NaN THEN NaN ELSE a - b
FMul(a, b) == IF a = NaN \/ b = NaN THEN NaN ELSE a * b
FAbs(a) == IF a = NaN THEN NaN ELSE IF a < 0 THEN 0 - a ELSE a

\* sum of f[0] .. f[n-1], left to right
RECURSIVE FSum(_, _)
FSum(f, n) == IF n = 0 THEN 0 ELSE FAdd(FSum(f, n - 1), f[n - 1])

\* m[a][c] as nopython-mode code reads it (Numba checks no bounds unless
\* boundscheck is asked for): the element at linear offset a*cols + c of the
\* C-contiguous buffer, or whatever lies past the buffer.
Load(m, a, c, g) ==
    LET off == a * Cols(m) + c
    IN  IF off < Rows(m) * Cols(m)
        THEN m.data[off \div Cols(m)][off % Cols(m)]
        ELSE g

InBounds(m, a, c) == a * Cols(m) + c < Rows(m) * Cols(m)

\* The docstring's formula, r_ij = x_ij^2 - y_ij^2.
SqDiffDocstring(a, b) == FSub(FMul(a, a), FMul(b, b))

\* (a - b)**2
SqDiff(a, b) == FMul(FSub(a, b), FSub(a, b))

\* An update of the accumulator that overwrites it.
LostUpdate(acc, d) == d

\* r += d
Accumulate(acc, d) == FAdd(acc, d)

\* An assignment that lands in the transposed cell.
SetCellTransposed(m, a, c, v) == [m EXCEPT !.data[c][a] = v]

\* m[a][c] = v
SetCell(m, a, c, v) == [m EXCEPT !.data[a][c] = v]


\* ---------------------------------------------------------------- numpy
\* np.einsum('ij,ij->i', m, m)[:, np.newaxis]
einsum_newaxis(m) ==
    [shape |-> <<Rows(m), 1>>,
     data |-> [a \in 0..(Rows(m)-1) |->
                 [c \in 0..0 |->
                    FSum([k \in 0..(Cols(m)-1) |-> FMul(m.data[a][k], m.data[a][k])],
                         Cols(m))]]]

\* m.T
Transpose(m) ==
    [shape |-> <<Cols(m), Rows(m)>>,
     data |-> [a \in 0..(Cols(m)-1) |-> [c \in 0..(Rows(m)-1) |-> m.data[c][a]]]]

\* np.dot(p, q) is defined when the inner dimensions agree; otherwise it
\* raises ValueError (shapes not aligned).
DotAligned(p, q) == Cols(p) = Rows(q)

dot(p, q) ==
    [shape |-> <<Rows(p), Cols(q)>>,
     data |-> [a \in 0..(Rows(p)-1) |->
                 [c \in 0..(Cols(q)-1) |->
                    FSum([k \in 0..(Cols(p)-1) |-> FMul(p.data[a][k], q.data[k][c])],
                         Cols(p))]]]

\* NumPy broadcasting of one dimension.
BroadcastDim(s, t) == IF s = 1 THEN t ELSE s

\* x2 + y2 - 2. * xy with x2 of shape (N, 1), y2 of shape (1, M), xy of (N, M)
Expanded(px2, py2, pxy) ==
    LET R == BroadcastDim(BroadcastDim(Rows(px2), Rows(py2)), Rows(pxy))
        C == BroadcastDim(BroadcastDim(Cols(px2), Cols(py2)), Cols(pxy))
        At(m, a, c) == m.data[IF Rows(m) = 1 /\ R # 1 THEN 0 ELSE a]
                             [IF Cols(m) = 1 /\ C # 1 THEN 0 ELSE c]
    IN  [shape |-> <<R, C>>,
         data |-> [a \in 0..(R-1) |->
                     [c \in 0..(C-1) |->
                        FSub(FAdd(At(px2, a, c), At(py2, a, c)),
                             FMul(2, At(pxy, a, c)))]]]

\* np.abs(m)
npabs(m) ==
    [shape |-> m.shape,
     data |-> [a \in 0..(Rows(m)-1) |-> [c \in 0..(Cols(m)-1) |-> FAbs(m.data[a][c])]]]

\* ---------------------------------------------------------------- numba2
\* Shapes (p,) and (q,) broadcast together when equal or when one is 1.
Broadcastable(p, q) == p = q \/ p = 1 \/ q = 1

\* ((x[a] - y[c])**2).sum()
RowSqDist(xm, a, ym, c, g) ==
    LET dx == Cols(xm)
        dy == Cols(ym)
        len == IF dx = 1 THEN dy ELSE dx
    IN  FSum([k \in 0..(len-1) |->
                SqDiff(xm.data[a][IF dx = 1 THEN 0 ELSE k],
                       Load(ym, c, IF dy = 1 THEN 0 ELSE k, g))],
             len)

\* ---------------------------------------------------------------- calls
Functions == {"euclidean_numpy", "euclidean_numba1", "euclidean_numba2"}

Entry(f) ==
    CASE f = "euclidean_numpy"  -> "np_x2"
      [] f = "euclidean_numba1" -> "nb1_shape"
      [] f = "euclidean_numba2" -> "nb2_shape"

Init ==
    /\ pc = "idle"
    /\ fn = ""
    /\ x = NoArray /\ y = NoArray
    /\ oob = 0
    /\ x2 = NoArray /\ y2 = NoArray /\ xy = NoArray
    /\ num_samples = 0 /\ num_feat = 0
    /\ dist_matrix = NoArray
    /\ i = 0 /\ j = 0
    /\ kdone = {} /\ jdone = {}
    /\ r = 0
    /\ ret = NoArray
    /\ err = ""
    /\ writes = <<>>
    /\ prev = NoCall

\* The frame of a fresh call f(X, Y); g is what lies past the buffers.
Begin(f, X, Y, g) ==
    /\ pc' = Entry(f)
    /\ fn' = f
    /\ x' = X /\ y' = Y
    /\ oob' = g
    /\ x2' = NoArray /\ y2' = NoArray /\ xy' = NoArray
    /\ num_samples' = 0 /\ num_feat' = 0
    /\ dist_matrix' = NoArray
    /\ i' = 0 /\ j' = 0
    /\ kdone' = {} /\ jdone' = {}
    /\ r' = 0
    /\ ret' = NoArray
    /\ err' = ""
    /\ writes' = <<>>

\* A caller invokes one of the functions on two arrays.
Call ==
    /\ pc = "idle"
    /\ \E f \in Functions, X \in Inputs, Y \in Inputs, g \in Garbage :
          Begin(f, X, Y, g)
    /\ UNCHANGED prev

\* Cell 4: a second call on the same two arrays (in either order), whose
\* result is compared with the first.
CallAgain ==
    /\ pc \in {"done", "raised"}
    /\ prev = NoCall
    /\ prev' = [fn |-> fn, x |-> x, y |-> y, ret |-> ret, err |-> err]
    /\ \E f \in Functions, g \in Garbage, swap \in BOOLEAN :
          Begin(f, IF swap THEN y ELSE x, IF swap THEN x ELSE y, g)

\* ---------------------------------------------------------------- euclidean_numpy
NumpyX2 ==
    /\ pc = "np_x2"
    /\ x2' = einsum_newaxis(x)
    /\ pc' = "np_y2"
    /\ UNCHANGED <<fn, x, y, oob, y2, xy, num_samples, num_feat, dist_matrix,
                   i, j, kdone, jdone, r, ret, err, writes, prev>>

NumpyY2 ==
    /\ pc = "np_y2"
    /\ y2' = Transpose(einsum_newaxis(y))
    /\ pc' = "np_xy"
    /\ UNCHANGED <<fn, x, y, oob, x2, xy, num_samples, num_feat, dist_matrix,
                   i, j, kdone, jdone, r, ret, err, writes, prev>>

NumpyDot ==
    /\ pc = "np_xy"
    /\ IF DotAligned(x, Transpose(y))
       THEN /\ xy' = dot(x, Transpose(y))
            /\ pc' = "np_ret"
            /\ err' = err
       ELSE /\ xy' = xy
            /\ pc' = "raised"
            /\ err' = "ValueError"
    /\ UNCHANGED <<fn, x, y, oob, x2, y2, num_samples, num_feat, dist_matrix,
                   i, j, kdone, jdone, r, ret, writes, prev>>

NumpyReturn ==
    /\ pc = "np_ret"
    /\ ret' = npabs(Expanded(x2, y2, xy))
    /\ pc' = "done"
    /\ UNCHANGED <<fn, x, y, oob, x2, y2, xy, num_samples, num_feat, dist_matrix,
                   i, j, kdone, jdone, r, err, writes, prev>>

\* ---------------------------------------------------------------- euclidean_numba1
\* num_samples, num_feat = x.shape; dist_matrix = np.zeros((num_samples, num_samples))
Alloc(nextpc) ==
    /\ num_samples' = Rows(x)
    /\ num_feat' = Cols(x)
    /\ dist_matrix' = zeros(Rows(x), Rows(x))
    /\ writes' = [c \in (0..(Rows(x)-1)) \X (0..(Rows(x)-1)) |-> 0]
    /\ i' = 0
    /\ pc' = nextpc

Numba1Alloc ==
    /\ pc = "nb1_shape"
    /\ Alloc("nb1_i")
    /\ UNCHANGED <<fn, x, y, oob, x2, y2, xy, j, kdone, jdone, r, ret, err, prev>>

\* for i in range(num_samples)
Numba1LoopI ==
    /\ pc = "nb1_i"
    /\ IF i < num_samples
       THEN j' = 0 /\ pc' = "nb1_j"
       ELSE j' = j /\ pc' = "nb1_ret"
    /\ UNCHANGED <<fn, x, y, oob, x2, y2, xy, num_samples, num_feat, dist_matrix,
                   i, kdone, jdone, r, ret, err, writes, prev>>

\* for j in range(num_samples): r = 0.0
Numba1LoopJ ==
    /\ pc = "nb1_j"
    /\ IF j < num_samples
       THEN r' = 0 /\ kdone' = {} /\ i' = i /\ pc' = "nb1_k"
       ELSE r' = r /\ kdone' = kdone /\ i' = i + 1 /\ pc' = "nb1_i"
    /\ UNCHANGED <<fn, x, y, oob, x2, y2, xy, num_samples, num_feat, dist_matrix,
                   j, jdone, ret, err, writes, prev>>

\* for k in numba.prange(num_feat): r += (x[i][k] - y[j][k])**2
\* The decorator is @numba.jit(nopython=True), without parallel=True, so
\* prange is range and the iterations run one at a time (with parallel=True
\* Numba compiles r += ... as a reduction).  Each iteration is one step; the
\* iterations are taken here in any order.
Numba1Accumulate ==
    /\ pc = "nb1_k"
    /\ \E k \in (0..(num_feat-1)) \ kdone :
          /\ r' = Accumulate(r, SqDiff(x.data[i][k], Load(y, j, k, oob)))
          /\ kdone' = kdone \cup {k}
    /\ UNCHANGED <<pc, fn, x, y, oob, x2, y2, xy, num_samples, num_feat, dist_matrix,
                   i, j, jdone, ret, err, writes, prev>>

\* dist_matrix[i][j] = r
Numba1Store ==
    /\ pc = "nb1_k"
    /\ kdone = 0..(num_feat-1)
    /\ dist_matrix' = SetCell(dist_matrix, i, j, r)
    /\ writes' = [writes EXCEPT ![<<i, j>>] = @ + 1]
    /\ j' = j + 1
    /\ pc' = "nb1_j"
    /\ UNCHANGED <<fn, x, y, oob, x2, y2, xy, num_samples, num_feat,
                   i, kdone, jdone, r, ret, err, prev>>

\* return dist_matrix
Numba1Return ==
    /\ pc = "nb1_ret"
    /\ ret' = dist_matrix
    /\ pc' = "done"
    /\ UNCHANGED <<fn, x, y, oob, x2, y2, xy, num_samples, num_feat, dist_matrix,
                   i, j, kdone, jdone, r, err, writes, prev>>

\* ---------------------------------------------------------------- euclidean_numba2
Numba2Alloc ==
    /\ pc = "nb2_shape"
    /\ Alloc("nb2_i")
    /\ UNCHANGED <<fn, x, y, oob, x2, y2, xy, j, kdone, jdone, r, ret, err, prev>>

\* for i in range(num_samples)
Numba2LoopI ==
    /\ pc = "nb2_i"
    /\ IF i < num_samples
       THEN jdone' = {} /\ pc' = "nb2_j"
       ELSE jdone' = jdone /\ pc' = "nb2_ret"
    /\ UNCHANGED <<fn, x, y, oob, x2, y2, xy, num_samples, num_feat, dist_matrix,
                   i, j, kdone, r, ret, err, writes, prev>>

\* for j in numba.prange(num_samples):
\*     dist_matrix[i][j] = ((x[i] - y[j])**2).sum()
\* One iteration, taken in any order.  The subtraction raises ValueError when
\* the two rows do not broadcast together.
Numba2Iteration ==
    /\ pc = "nb2_j"
    /\ \E c \in (0..(num_samples-1)) \ jdone :
          IF Broadcastable(Cols(x), Cols(y))
          THEN /\ dist_matrix' = SetCell(dist_matrix, i, c, RowSqDist(x, i, y, c, oob))
               /\ writes' = [writes EXCEPT ![<<i, c>>] = @ + 1]
               /\ jdone' = jdone \cup {c}
               /\ pc' = pc
               /\ err' = err
          ELSE /\ pc' = "raised"
               /\ err' = "ValueError"
               /\ UNCHANGED <<dist_matrix, writes, jdone>>
    /\ UNCHANGED <<fn, x, y, oob, x2, y2, xy, num_samples, num_feat,
                   i, j, kdone, r, ret, prev>>

\* The prange loop over j has run all its iterations.
Numba2RowEnd ==
    /\ pc = "nb2_j"
    /\ jdone = 0..(num_samples-1)
    /\ i' = i + 1
    /\ pc' = "nb2_i"
    /\ UNCHANGED <<fn, x, y, oob, x2, y2, xy, num_samples, num_feat, dist_matrix,
                   j, kdone, jdone, r, ret, err, writes, prev>>

Numba2Return ==
    /\ pc = "nb2_ret"
    /\ ret' = dist_matrix
    /\ pc' = "done"
    /\ UNCHANGED <<fn, x, y, oob, x2, y2, xy, num_samples, num_feat, dist_matrix,
                   i, j, kdone, jdone, r, err, writes, prev>>

\* A read past the end of y's buffer may also fault instead of returning a
\* value: the process is killed and nothing is returned.
Segfault ==
    /\ \/ /\ pc = "nb1_k"
          /\ \E k \in (0..(num_feat-1)) \ kdone : ~InBounds(y, j, k)
       \/ /\ pc = "nb2_j"
          /\ Broadcastable(Cols(x), Cols(y))
          /\ \E c \in (0..(num_samples-1)) \ jdone : ~InBounds(y, c, Cols(y) - 1)
    /\ pc' = "crashed"
    /\ err' = "SIGSEGV"
    /\ UNCHANGED <<fn, x, y, oob, x2, y2, xy, num_samples, num_feat, dist_matrix,
                   i, j, kdone, jdone, r, ret, writes, prev>>

\* ---------------------------------------------------------------- specifications
Step ==
    \/ Call
    \/ NumpyX2 \/ NumpyY2 \/ NumpyDot \/ NumpyReturn
    \/ Numba1Alloc \/ Numba1LoopI \/ Numba1LoopJ \/ Numba1Accumulate
    \/ Numba1Store \/ Numba1Return
    \/ Numba2Alloc \/ Numba2LoopI \/ Numba2Iteration \/ Numba2RowEnd
    \/ Numba2Return
    \/ Segfault

\* One call.
Next == Step
Spec == Init /\ [][Next]_vars

\* Two calls on the same arrays, as cell 4 makes them.
NextCompare == Step \/ CallAgain
SpecCompare == Init /\ [][NextCompare]_vars

\* ---------------------------------------------------------------- properties
Returned == pc = "done"
Finished == pc \in {"done", "raised", "crashed"}
SameFeat == Cols(x) = Cols(y)
HasCell(m, a, c) == a \in 0..(Rows(m)-1) /\ c \in 0..(Cols(m)-1)
NonNegative(v) == v # NaN /\ v >= 0

\* sum over k in 0..n-1 of (X[a][k] - Y[c][k])^2, for rows inside both arrays
RECURSIVE SquaredDistance(_, _, _, _, _)
SquaredDistance(X, a, Y, c, n) ==
    IF n = 0 THEN 0
    ELSE SquaredDistance(X, a, Y, c, n - 1)
         + (X.data[a][n-1] - Y.data[c][n-1]) * (X.data[a][n-1] - Y.data[c][n-1])

\* C1: for inputs of equal feature count, every entry [a][c] with a < rows(X)
\* and c < rows(Y) of the returned matrix exists and is the sum over k of
\* (X[a][k] - Y[c][k])^2.
C1_EntriesAreSquaredDistances ==
    (Returned /\ SameFeat) =>
        \A a \in 0..(Rows(x)-1), c \in 0..(Rows(y)-1) :
            /\ HasCell(ret, a, c)
            /\ ret.data[a][c] = SquaredDistance(x, a, y, c, Cols(x))

\* C2: for inputs of equal feature count, the returned matrix has shape
\* (rows(X), rows(Y)).
C2_ShapeIsRowsByRows ==
    (Returned /\ SameFeat) => ret.shape = <<Rows(x), Rows(y)>>

\* C3: when the feature counts differ the call ends by raising the shape
\* error, and returns no matrix.
C3_FeatureMismatchRaises ==
    (Finished /\ ~SameFeat) =>
        /\ pc = "raised"
        /\ err = "ValueError"
        /\ ret = NoArray

\* C4: when either input has zero rows the call returns, without error, a
\* matrix of shape (rows(X), rows(Y)).
C4_EmptyInputGivesEmptyMatrix ==
    (Finished /\ SameFeat /\ (Rows(x) = 0 \/ Rows(y) = 0)) =>
        /\ Returned
        /\ err = ""
        /\ ret.shape = <<Rows(x), Rows(y)>>

\* C5: two different functions called on the same two arrays return the same
\* matrix, shape and cells.
C5_StrategiesAgree ==
    (Returned /\ prev.fn # "" /\ prev.fn # fn /\ prev.err = ""
        /\ prev.x = x /\ prev.y = y /\ SameFeat) =>
        ret = prev.ret

\* C6: a function called on (X, Y) and on (Y, X) returns matrices that are
\* transposes of each other: entry [a][c] of one is entry [c][a] of the other
\* for every a < rows(X), c < rows(Y).
C6_SwapTransposes ==
    (Returned /\ prev.fn = fn /\ prev.err = ""
        /\ prev.x = y /\ prev.y = x /\ SameFeat) =>
        \A a \in 0..(Rows(x)-1), c \in 0..(Rows(y)-1) :
            /\ HasCell(ret, a, c)
            /\ HasCell(prev.ret, c, a)
            /\ ret.data[a][c] = prev.ret.data[c][a]

\* C7: a function called with the same array as both arguments returns a
\* symmetric matrix with a zero diagonal.
C7_SelfDistanceSymmetricZeroDiagonal ==
    (Returned /\ x = y) =>
        /\ ret.shape = <<Rows(x), Rows(x)>>
        /\ \A a \in 0..(Rows(x)-1), c \in 0..(Rows(x)-1) :
              /\ ret.data[a][c] = ret.data[c][a]
              /\ ret.data[a][a] = 0

\* X = Y = [[0,0],[3,4]] gives [[0,25],[25,0]] from the loop variant.
C7_Witness ==
    /\ Returned
    /\ fn = "euclidean_numba1"
    /\ x = y
    /\ x.shape = <<2, 2>>
    /\ x.data[0][0] = 0 /\ x.data[0][1] = 0
    /\ x.data[1][0] = 3 /\ x.data[1][1] = 4
    /\ ret.data[0][1] = 25 /\ ret.data[1][0] = 25

\* C8: for inputs of equal feature count, the accumulator, every cell of the
\* matrix under construction and every cell of the returned matrix are >= 0
\* at every point of the call.
C8_EntriesNonNegative ==
    (pc # "idle" /\ SameFeat) =>
        /\ NonNegative(r)
        /\ dist_matrix # NoArray =>
              \A c \in Cells(dist_matrix) : NonNegative(dist_matrix.data[c[1]][c[2]])
        /\ Returned =>
              \A c \in Cells(ret) : NonNegative(ret.data[c[1]][c[2]])

\* The matrix the loops of euclidean_numba2 produce when run in order.
SequentialNumba2 ==
    [shape |-> <<Rows(x), Rows(x)>>,
     data |-> [a \in 0..(Rows(x)-1) |->
                 [c \in 0..(Rows(x)-1) |-> RowSqDist(x, a, y, c, oob)]]]

\* C9: in euclidean_numba2, with the iterations of the prange loop over j taken
\* in any order, no cell of dist_matrix is assigned twice, every cell has been
\* assigned exactly once when the function returns, and the matrix returned is
\* the one in-order execution produces.
C9_PrangeCellsWrittenOnce ==
    (fn = "euclidean_numba2") =>
        /\ \A c \in DOMAIN writes : writes[c] <= 1
        /\ Returned =>
              /\ \A c \in DOMAIN writes : writes[c] = 1
              /\ DOMAIN writes = Cells(ret)
              /\ ret = SequentialNumba2

\* Two rows, two features, iterations of a row both done, asymmetric result.
C9_Witness ==
    /\ Returned
    /\ fn = "euclidean_numba2"
    /\ x.shape = <<2, 2>> /\ y.shape = <<2, 2>>
    /\ ret.data[0][1] = 25
    /\ ret.data[1][0] = 9
    /\ writes[<<0, 1>>] = 1 /\ writes[<<1, 0>>] = 1

\* (x[i][k] - y[j][k])**2 as euclidean_numba1 reads its operands
Term(a, c, k) == SqDiff(x.data[a][k], Load(y, c, k, oob))

\* sum of the terms of the iterations in K, among k = 0..n-1
RECURSIVE SumOver(_, _, _, _)
SumOver(a, c, K, n) ==
    IF n = 0 THEN 0
    ELSE FAdd(SumOver(a, c, K, n - 1), IF (n - 1) \in K THEN Term(a, c, n - 1) ELSE 0)

====
